---- MODULE Spec2Model ----
(***************************************************************************)
(* A model of the remote-job digest scripts: the keyword filter, the three *)
(* source adapters, the sent-jobs ledger and the driver (remote_jobs.py),  *)
(* and the Gmail/IMAP alert reader (indeed_imap.py).                       *)
(*                                                                         *)
(* Python strings are sequences of one-character strings, so that          *)
(* lower-casing, substring tests, concatenation, splitting and sorting are *)
(* computed and not assumed.                                               *)
(***************************************************************************)
EXTENDS Integers, Sequences, FiniteSets, TLC

VARIABLES
    SEARCH_KEYWORDS,   \* remote_jobs.py module global, set once at import
    f_pc, f_title, f_company, f_location, f_desc, f_result,
                       \* one call of is_allowed_job: its arguments and result
    ledger_file,       \* the content of SENT_CACHE_FILE
    pc,                \* where main() stands
    sent, jobs_wwr, jobs_rok, indeed_jobs, jobs, unique,
                       \* the locals of main(); unique is the dict, in insertion order
    last_email,        \* the message this run handed to SMTP, if any
    run,               \* the number of this run of the script
    file_at_start,     \* history: the ledger file when this run started
    notified,          \* history: keys of the digests of runs that sent and completed
    seen_ok,           \* history: keys of the records merged by runs that returned
    calls,             \* history: adapter invocations of this run
    raised_by,         \* history: what raised the exception that ended this run
    USER, PASS, INDEED_FROM, INDEED_SUBJECT, INDEED_MAX_EMAILS,
                       \* indeed_imap.py module globals, set once at import
    imap_pc,           \* where fetch_indeed_jobs_from_gmail() stands
    session,           \* the IMAP connection: "none", "open", "closed" (logged out)
    query, ids, all_jobs,
                       \* its locals; ids is what the loop has still to read
    search_ids,        \* history: the message ids the search returned
    fetched            \* history: the message ids handed to mail.fetch

filter_vars == <<f_pc, f_title, f_company, f_location, f_desc, f_result>>

driver_vars == <<ledger_file, pc, sent, jobs_wwr, jobs_rok, indeed_jobs, jobs, unique,
                 last_email, run, file_at_start, notified, seen_ok, calls, raised_by>>

imap_vars == <<USER, PASS, INDEED_FROM, INDEED_SUBJECT, INDEED_MAX_EMAILS,
               imap_pc, session, query, ids, all_jobs, search_ids, fetched>>

vars == <<SEARCH_KEYWORDS, filter_vars, driver_vars, imap_vars>>

----------------------------------------------------------------------------
(* Bounds of the model *)

\* longest title / description drawn for a call of is_allowed_job
MaxFieldLen == 2

\* runs of the script on one ledger file
MaxRuns == 2

\* messages in the mailbox that a search can match
MaxIds == 3

----------------------------------------------------------------------------
(* Strings *)

\* code points 32..126 in order; the entry of code point 96 is never a character
\* of a modelled string
Ascii == <<" ","!","\"","#","$","%","&","'","(",")","*","+",",","-",".","/",
           "0","1","2","3","4","5","6","7","8","9",":",";","<","=",">","?","@",
           "A","B","C","D","E","F","G","H","I","J","K","L","M","N","O","P","Q",
           "R","S","T","U","V","W","X","Y","Z","[","\\","]","^","_","(grave)",
           "a","b","c","d","e","f","g","h","i","j","k","l","m","n","o","p","q",
           "r","s","t","u","v","w","x","y","z","{","|","}","~">>

\* ord(c): printable ASCII starts at 32; "\n" is 10, "\t" is 9
CodePointOf ==
    [c \in {Ascii[i] : i \in 1..Len(Ascii)} \cup {"\n", "\t"} |->
        IF c = "\n" THEN 10
        ELSE IF c = "\t" THEN 9
        ELSE 31 + (CHOOSE i \in 1..Len(Ascii) : Ascii[i] = c)]

CodePoint(c) == CodePointOf[c]

\* the lower-case letter of each upper-case letter (code point + 32)
LowerOf ==
    [c \in {Ascii[i] : i \in 34..59} |-> Ascii[CodePointOf[c] + 32 - 31]]

LowerChar(c) == IF c \in DOMAIN LowerOf THEN LowerOf[c] ELSE c

\* str.lower()
Lower(s) == [i \in 1..Len(s) |-> LowerChar(s[i])]

\* k in s
Contains(k, s) ==
    \E i \in 0..(Len(s) - Len(k)) : SubSeq(s, i + 1, i + Len(k)) = k

IsSpace(c) == c \in {" ", "\n", "\t"}

RECURSIVE LStrip(_)
LStrip(s) == IF s # <<>> /\ IsSpace(Head(s)) THEN LStrip(Tail(s)) ELSE s

RECURSIVE RStrip(_)
RStrip(s) ==
    IF s # <<>> /\ IsSpace(s[Len(s)]) THEN RStrip(SubSeq(s, 1, Len(s) - 1)) ELSE s

\* str.strip()
Strip(s) == RStrip(LStrip(s))

\* str.split(sep) for a one-character separator: always at least one piece
RECURSIVE SplitAcc(_, _, _)
SplitAcc(s, sep, cur) ==
    IF s = <<>> THEN <<cur>>
    ELSE IF Head(s) = sep THEN <<cur>> \o SplitAcc(Tail(s), sep, <<>>)
    ELSE SplitAcc(Tail(s), sep, Append(cur, Head(s)))

Split(s, sep) == SplitAcc(s, sep, <<>>)

\* str < str: lexicographic by code point
RECURSIVE StrLess(_, _)
StrLess(a, b) ==
    IF b = <<>> THEN FALSE
    ELSE IF a = <<>> THEN TRUE
    ELSE IF Head(a) = Head(b) THEN StrLess(Tail(a), Tail(b))
    ELSE CodePoint(Head(a)) < CodePoint(Head(b))

\* s[start:], with Python's reading of a negative or too large start
SliceFrom(s, start) ==
    LET n == Len(s)
        b == IF start < 0
             THEN (IF start + n < 0 THEN 0 ELSE start + n)
             ELSE (IF start > n THEN n ELSE start)
    IN  SubSeq(s, b + 1, n)

\* all strings over an alphabet, up to a length
StringsUpTo(alphabet, n) == UNION {[1..m -> alphabet] : m \in 0..n}

----------------------------------------------------------------------------
(* Config (remote_jobs.py 33-44) *)

DefaultKeywords ==
    << <<"d","e","v","e","l","o","p","e","r">>, <<"e","n","g","i","n","e","e","r">> >>

RECURSIVE StripLowerNonEmpty(_)
StripLowerNonEmpty(pieces) ==
    IF pieces = <<>> THEN <<>>
    ELSE LET k == Head(pieces) IN
         (IF Strip(k) # <<>> THEN <<Lower(Strip(k))>> ELSE <<>>)
             \o StripLowerNonEmpty(Tail(pieces))

\* SEARCH_KEYWORDS from the environment value (os.getenv default "")
KeywordsFromEnv(env) ==
    LET ks == StripLowerNonEmpty(Split(env, ","))
    IN  IF ks = <<>> THEN DefaultKeywords ELSE ks

EXCLUDE_CHINA_KEYWORDS ==
    << <<"c","h","i","n","a">>,
       <<"b","e","i","j","i","n","g">>,
       <<"s","h","a","n","g","h","a","i">>,
       <<"s","h","e","n","z","h","e","n">>,
       <<"g","u","a","n","g","z","h","o","u">>,
       <<"p","r","c">>,
       <<"c","n">>,
       <<"h","o","n","g"," ","k","o","n","g">> >>

----------------------------------------------------------------------------
(* Helpers (remote_jobs.py 50-60) *)

Sp == <<" ">>

text_contains_any(text, keywords) ==
    \E i \in 1..Len(keywords) : Contains(keywords[i], Lower(text))

job_matches_keywords(title, desc) ==
    text_contains_any(title \o Sp \o desc, SEARCH_KEYWORDS)

\* the early return on an exclude match dropped
is_allowed_job_no_exclude(title, company, location, desc) ==
    job_matches_keywords(title, desc)

is_allowed_job(title, company, location, desc) ==
    LET blob == Lower(title \o Sp \o company \o Sp \o location \o Sp \o desc)
    IN  IF text_contains_any(blob, EXCLUDE_CHINA_KEYWORDS)
        THEN FALSE
        ELSE job_matches_keywords(title, desc)

----------------------------------------------------------------------------
(* Sent cache (remote_jobs.py 66-78) *)

\* the ledger file: absent, not parseable as JSON, or a JSON array of strings
AbsentFile == [state |-> "absent", keys |-> <<>>]
UnparseableFile == [state |-> "unparseable", keys |-> <<>>]
JsonFile(keys) == [state |-> "json", keys |-> keys]

SeqToSet(s) == {s[i] : i \in 1..Len(s)}

\* sorted(keys)
RECURSIVE Sorted(_)
Sorted(S) ==
    IF S = {} THEN <<>>
    ELSE LET m == CHOOSE x \in S : \A y \in S \ {x} : StrLess(x, y)
         IN  <<m>> \o Sorted(S \ {m})

load_sent(file) ==
    IF file.state = "json" THEN SeqToSet(file.keys) ELSE {}

save_sent(keys) == JsonFile(Sorted(keys))

ColonColon == <<":",":">>

job_key(job) ==
    IF job.url # <<>> THEN job.url
    ELSE job.source \o ColonColon \o job.title \o ColonColon \o job.company

----------------------------------------------------------------------------
(* Job sources (remote_jobs.py 84-177) *)

\* dict.get(k, d) and getattr(e, k, d)
Get(item, k, d) == IF k \in DOMAIN item THEN item[k] ELSE d

\* x or y, on strings
Or(x, y) == IF x # <<>> THEN x ELSE y

S_WeWorkRemotely == <<"W","e","W","o","r","k","R","e","m","o","t","e","l","y">>
S_RemoteOK == <<"R","e","m","o","t","e","O","K">>
S_Unknown == <<"U","n","k","n","o","w","n">>
S_Remote == <<"R","e","m","o","t","e">>

\* the loop over feed.entries
RECURSIVE wwr_entries(_)
wwr_entries(entries) ==
    IF entries = <<>> THEN <<>>
    ELSE LET e == Head(entries)
             title == Or(Get(e, "title", <<>>), <<>>)
             summary == Or(Get(e, "summary", <<>>), <<>>)
             link == Or(Get(e, "link", <<>>), <<>>)
             blob == Lower(title \o Sp \o S_Remote \o Sp \o summary)
             rest == wwr_entries(Tail(entries))
         IN  IF text_contains_any(blob, EXCLUDE_CHINA_KEYWORDS) THEN rest
             ELSE IF ~job_matches_keywords(title, summary) THEN rest
             ELSE << [source |-> S_WeWorkRemotely, title |-> title,
                      company |-> S_Unknown, location |-> S_Remote,
                      url |-> link] >> \o rest

\* resp: [ok, entries]; ok is false when requests.get or raise_for_status raises
fetch_wwr(resp) ==
    IF ~resp.ok THEN <<>> ELSE wwr_entries(resp.entries)

\* the loop over data[1:]; an item that is no JSON object has no .get
RECURSIVE rok_items(_)
rok_items(items) ==
    IF items = <<>> THEN [raised |-> FALSE, jobs |-> <<>>]
    ELSE LET it == Head(items) IN
         IF it.kind # "object" THEN [raised |-> TRUE, jobs |-> <<>>]
         ELSE LET item == it.fields
                  title == Or(Get(item, "position", <<>>),
                              Or(Get(item, "title", <<>>), <<>>))
                  rest == rok_items(Tail(items))
                  job == [source |-> S_RemoteOK, title |-> title,
                          company |-> Get(item, "company", S_Unknown),
                          location |-> Get(item, "location", S_Remote),
                          url |-> Get(item, "url", <<>>)]
              IN  IF rest.raised THEN rest
                  ELSE IF is_allowed_job(title, Get(item, "company", <<>>),
                                         Get(item, "location", <<>>),
                                         Get(item, "description", <<>>))
                       THEN [raised |-> FALSE, jobs |-> <<job>> \o rest.jobs]
                       ELSE rest

\* resp.status: "error" (requests.get raises), "bad_status" (raise_for_status
\* raises), "bad_json" (r.json() raises), "json" (data is resp.data).
\* The result: the list returned, or raised when an exception leaves the function.
fetch_remoteok(resp) ==
    IF resp.status # "json" THEN [raised |-> FALSE, jobs |-> <<>>]
    ELSE IF resp.data.kind # "array" THEN [raised |-> TRUE, jobs |-> <<>>]
    ELSE rok_items(SliceFrom(resp.data.items, 1))

----------------------------------------------------------------------------
(* Indeed alert mails (indeed_imap.py 35-99) *)

S_attachment == <<"a","t","t","a","c","h","m","e","n","t">>
S_indeed == <<"i","n","d","e","e","d">>
S_IndeedAlert == <<"I","n","d","e","e","d","(","A","l","e","r","t",")">>
S_RemoteUnknown == <<"R","e","m","o","t","e","/","U","n","k","n","o","w","n">>

NoHtml == [none |-> TRUE, anchors |-> <<>>]

\* the first text/html part that is no attachment
RECURSIVE first_html_part(_)
first_html_part(parts) ==
    IF parts = <<>> THEN NoHtml
    ELSE LET part == Head(parts) IN
         IF Contains(S_attachment, part.disp) THEN first_html_part(Tail(parts))
         ELSE IF part.ctype = "text/html"
              THEN [none |-> FALSE, anchors |-> part.payload]
              ELSE first_html_part(Tail(parts))

\* msg: [multipart, parts]; parts is msg.walk() of a multipart message and
\* the message itself otherwise. An HTML document is the sequence of its
\* anchors, each with its text and, when it has one, its href.
get_html_body(msg) ==
    IF msg.multipart THEN first_html_part(msg.parts)
    ELSE IF msg.parts[1].ctype = "text/html"
         THEN [none |-> FALSE, anchors |-> msg.parts[1].payload]
         ELSE NoHtml

looks_like_job_link(url) ==
    LET u == Lower(url) IN
    IF u = <<>> THEN FALSE ELSE Contains(S_indeed, u)

\* re.sub(r"\s+", " ", s): every run of white space becomes one space
RECURSIVE CollapseWs(_, _)
CollapseWs(s, inRun) ==
    IF s = <<>> THEN <<>>
    ELSE IF IsSpace(Head(s))
         THEN (IF inRun THEN <<>> ELSE Sp) \o CollapseWs(Tail(s), TRUE)
         ELSE <<Head(s)>> \o CollapseWs(Tail(s), FALSE)

normalize_ws(s) == Strip(CollapseWs(s, FALSE))

MinTitleLen == 6

RECURSIVE extract_anchors(_, _)
extract_anchors(anchors, seen) ==
    IF anchors = <<>> THEN <<>>
    ELSE LET a == Head(anchors)
             href == Strip(Get(a, "href", <<>>))
             text == normalize_ws(a.text)
         IN  IF "href" \notin DOMAIN a THEN extract_anchors(Tail(anchors), seen)
             ELSE IF ~looks_like_job_link(href) THEN extract_anchors(Tail(anchors), seen)
             ELSE IF href \in seen THEN extract_anchors(Tail(anchors), seen)
             ELSE IF Len(text) < MinTitleLen
                  THEN extract_anchors(Tail(anchors), seen \cup {href})
             ELSE << [source |-> S_IndeedAlert, title |-> text,
                      company |-> S_Unknown, location |-> S_RemoteUnknown,
                      url |-> href, summary |-> <<>>] >>
                  \o extract_anchors(Tail(anchors), seen \cup {href})

extract_jobs_from_indeed_email_html(anchors) == extract_anchors(anchors, {})

\* the jobs one fetched message adds to all_jobs
message_jobs(msg) ==
    LET html == get_html_body(msg) IN
    IF html.none THEN <<>> ELSE extract_jobs_from_indeed_email_html(html.anchors)

----------------------------------------------------------------------------
(* Email (remote_jobs.py 183-193, 227-238) *)

Digits == <<"0","1","2","3","4","5","6","7","8","9">>

\* str(n), n >= 0
RECURSIVE IntToStr(_)
IntToStr(n) ==
    IF n < 10 THEN <<Digits[n + 1]>>
    ELSE IntToStr(n \div 10) \o <<Digits[(n % 10) + 1]>>

\* sep.join(parts)
RECURSIVE Join(_, _)
Join(parts, sep) ==
    IF parts = <<>> THEN <<>>
    ELSE IF Len(parts) = 1 THEN parts[1]
    ELSE parts[1] \o sep \o Join(Tail(parts), sep)

\* the three lines of each job, numbered from i
RECURSIVE job_lines(_, _)
job_lines(new_jobs, i) ==
    IF new_jobs = <<>> THEN <<>>
    ELSE LET j == Head(new_jobs) IN
         << IntToStr(i) \o <<"."," ","[">> \o j.source \o <<"]"," ">> \o j.title
                \o <<" ","-"," ">> \o j.company,
            j.url,
            <<>> >> \o job_lines(Tail(new_jobs), i + 1)

digest_body(new_jobs) ==
    Join(<< <<"S","e","a","r","c","h"," ","k","e","y","w","o","r","d","s",":"," ">> \o Join(SEARCH_KEYWORDS, <<","," ">>), <<>> >>
            \o job_lines(new_jobs, 1),
         <<"\n">>)

\* datetime.now(TZ).strftime("%Y-%m-%d"): one reading of the clock
Today == <<"2","0","2","4","-","0","1","-","0","1">>

digest_subject(new_jobs) ==
    <<"[","D","a","i","l","y"," ","R","e","m","o","t","e"," ","J","o","b","s","]"," ">> \o IntToStr(Len(new_jobs)) \o <<" ","-"," ">> \o Today

NoEmail == [subject |-> <<>>, body |-> <<>>]

----------------------------------------------------------------------------
(* What the sources answer *)

WwrA == [title |-> <<"D","e","v","e","l","o","p","e","r">>, summary |-> <<>>, link |-> <<"w","/","1">>]
WwrB == [summary |-> <<"S","e","n","i","o","r"," ","e","n","g","i","n","e","e","r">>, link |-> <<"w","/","2">>]
WwrC == [title |-> <<"E","n","g","i","n","e","e","r">>, summary |-> <<"S","h","a","n","g","h","a","i">>, link |-> <<"w","/","3">>]
WwrD == [title |-> <<"S","a","l","e","s">>, summary |-> <<>>, link |-> <<"w","/","4">>]

WWRResponses ==
    { [ok |-> FALSE, entries |-> <<>>],
      [ok |-> TRUE, entries |-> <<WwrA>>],
      [ok |-> TRUE, entries |-> <<WwrC, WwrB>>],
      [ok |-> TRUE, entries |-> <<WwrD>>] }

Obj(fields) == [kind |-> "object", fields |-> fields]

RokLegend == Obj([legal |-> <<"t","e","r","m","s">>])
RokA == Obj([position |-> <<"E","n","g","i","n","e","e","r">>, company |-> <<"A","c","m","e">>, url |-> <<"w","/","1">>,
             description |-> <<>>])
RokB == Obj([title |-> <<"E","n","g","i","n","e","e","r">>, company |-> <<"A","c","m","e">>])
RokC == Obj([position |-> <<"D","e","v","e","l","o","p","e","r">>, location |-> <<"B","e","i","j","i","n","g">>, url |-> <<"r","/","3">>])
RokD == Obj([description |-> <<"d","e","v","e","l","o","p","e","r">>, url |-> <<"r","/","4">>])
RokNotAnObject == [kind |-> "string", fields |-> [s |-> <<"x">>]]

RokArray(items) == [status |-> "json", data |-> [kind |-> "array", items |-> items]]

RemoteOKResponses ==
    { [status |-> "error", data |-> [kind |-> "none", items |-> <<>>]],
      [status |-> "bad_status", data |-> [kind |-> "none", items |-> <<>>]],
      [status |-> "bad_json", data |-> [kind |-> "none", items |-> <<>>]],
      [status |-> "json", data |-> [kind |-> "object", items |-> <<>>]],
      RokArray(<<>>),
      RokArray(<<RokLegend, RokA>>),
      RokArray(<<RokLegend, RokC, RokB>>),
      RokArray(<<RokLegend, RokD>>),
      RokArray(<<RokLegend, RokNotAnObject>>) }

Part(ctype, disp, payload) == [ctype |-> ctype, disp |-> disp, payload |-> payload]

HtmlA ==
    << [href |-> <<" ","i","n","d","e","e","d",".","c","o","m","/","1"," ">>, text |-> <<" "," ","S","e","n","i","o","r"," "," "," ","B","a","c","k","e","n","d"," ","\n"," ","E","n","g","i","n","e","e","r"," "," ">>],
       [href |-> <<"o","t","h","e","r",".","c","o","m","/","x">>, text |-> <<"H","i">>],
       [href |-> <<"i","n","d","e","e","d",".","c","o","m","/","1">>, text |-> <<"S","e","n","i","o","r"," ","B","a","c","k","e","n","d"," ","E","n","g","i","n","e","e","r">>],
       [href |-> <<"I","n","d","e","e","d",".","c","o","m","/","2">>, text |-> <<"A","p","p","l","y">>],
       [text |-> <<"U","n","s","u","b","s","c","r","i","b","e">>] >>

HtmlB == << [href |-> <<"i","n","d","e","e","d",".","c","o","m","/","9">>, text |-> <<"A","c","c","o","u","n","t"," ","M","a","n","a","g","e","r">>] >>

HtmlC == << [href |-> <<"i","n","d","e","e","d",".","c","o","m","/","3">>, text |-> <<"P","y","t","h","o","n"," ","D","e","v","e","l","o","p","e","r">>] >>

MsgA ==
    [multipart |-> TRUE,
     parts |-> << Part("multipart/mixed", <<>>, <<>>),
                  Part("text/plain", <<>>, <<>>),
                  Part("text/html", <<"a","t","t","a","c","h","m","e","n","t",";"," ","f","i","l","e","n","a","m","e","=","a",".","h","t","m","l">>, HtmlB),
                  Part("text/html", <<>>, HtmlA) >>]

MsgB == [multipart |-> FALSE, parts |-> << Part("text/plain", <<>>, <<>>) >>]

MsgC == [multipart |-> FALSE, parts |-> << Part("text/html", <<>>, HtmlC) >>]

\* what fetch_indeed_jobs_from_gmail does to its caller: it raises, or it
\* returns the jobs of the messages it read
IndeedOutcomes ==
    { [raised |-> TRUE, jobs |-> <<>>],
      [raised |-> FALSE, jobs |-> message_jobs(MsgB)],
      [raised |-> FALSE, jobs |-> message_jobs(MsgA)] }

\* ledger files a first run can find: none, one that does not parse, and
\* sorted arrays (what save_sent writes)
InitialKeys == { <<"w","/","1">>, <<"o","l","d","/","7">> }

LedgerFilesAtStart ==
    {AbsentFile, UnparseableFile} \cup {save_sent(S) : S \in SUBSET InitialKeys}

----------------------------------------------------------------------------
(* The mailbox reader (indeed_imap.py 12-19, 102-158) *)

\* INDEED_MAX_EMAILS when the environment does not set it
DefaultMaxEmails == 5

\* bytes.split(): the runs of characters that are no white space
RECURSIVE SplitWsAcc(_, _)
SplitWsAcc(s, cur) ==
    IF s = <<>> THEN (IF cur = <<>> THEN <<>> ELSE <<cur>>)
    ELSE IF IsSpace(Head(s))
         THEN (IF cur = <<>> THEN <<>> ELSE <<cur>>) \o SplitWsAcc(Tail(s), <<>>)
         ELSE SplitWsAcc(Tail(s), Append(cur, Head(s)))

SplitWs(s) == SplitWsAcc(s, <<>>)

\* lines 115-121
build_query(from, subject) ==
    LET query_parts ==
            (IF from # <<>> THEN << <<"F","R","O","M"," ","\"">> \o from \o <<"\"">> >> ELSE <<>>)
            \o (IF subject # <<>> THEN << <<"S","U","B","J","E","C","T"," ","\"">> \o subject \o <<"\"">> >> ELSE <<>>)
    IN  IF query_parts # <<>> THEN Join(query_parts, Sp) ELSE <<"A","L","L">>

\* ids[-INDEED_MAX_EMAILS:]
most_recent(id_list, n) == SliceFrom(id_list, 0 - n)

\* the message numbers 1..MaxIds that match, in ascending order, as the
\* server writes them: separated by spaces
RECURSIVE IdLine(_, _)
IdLine(S, from) ==
    IF from > MaxIds THEN <<>>
    ELSE IF from \in S
         THEN IntToStr(from)
              \o (IF \E m \in S : m > from THEN Sp ELSE <<>>)
              \o IdLine(S, from + 1)
         ELSE IdLine(S, from + 1)

SearchAnswers ==
    { [typ |-> "raise", data0 |-> <<>>], [typ |-> "NO", data0 |-> <<>>] }
    \cup { [typ |-> "OK", data0 |-> IdLine(S, 1)] : S \in SUBSET (1..MaxIds) }

\* the message stored under a message number
MessageOf(msg_id) ==
    IF msg_id = <<"1">> THEN MsgA
    ELSE IF msg_id = <<"2">> THEN MsgB
    ELSE MsgC

\* mail.fetch: "OK" with the message; "NO"; "OK" with [None] as data, on which
\* msg_data[0][1] raises; or an exception of mail.fetch itself
FetchAnswers == {"OK", "NO", "OK_no_data", "raise"}

ImapInit ==
    /\ USER \in {<<>>, <<"m","e">>}
    /\ PASS \in {<<>>, <<"p","w">>}
    /\ INDEED_FROM \in {<<>>, <<"i","n","d","e","e","d">>}
    /\ INDEED_SUBJECT \in {<<>>, <<"J","o","b"," ","A","l","e","r","t">>}
    /\ INDEED_MAX_EMAILS \in (0..(MaxIds + 1)) \cup {DefaultMaxEmails}
    /\ imap_pc = "check_credentials"
    /\ session = "none"
    /\ query = <<>>
    /\ ids = <<>>
    /\ all_jobs = <<>>
    /\ search_ids = <<>>
    /\ fetched = <<>>

imap_config == <<USER, PASS, INDEED_FROM, INDEED_SUBJECT, INDEED_MAX_EMAILS>>

\* lines 106-107
CheckCredentials ==
    /\ imap_pc = "check_credentials"
    /\ imap_pc' = IF USER = <<>> \/ PASS = <<>> THEN "raised" ELSE "connect"
    /\ UNCHANGED <<imap_config, session, query, ids, all_jobs, search_ids, fetched>>

\* line 109: IMAP4_SSL(HOST, PORT) connects, or raises
Connect ==
    /\ imap_pc = "connect"
    /\ \E ok \in BOOLEAN :
         IF ok THEN session' = "open" /\ imap_pc' = "login"
         ELSE UNCHANGED session /\ imap_pc' = "raised"
    /\ UNCHANGED <<imap_config, query, ids, all_jobs, search_ids, fetched>>

\* line 110
Login ==
    /\ imap_pc = "login"
    /\ \E ok \in BOOLEAN : imap_pc' = IF ok THEN "select" ELSE "raised"
    /\ UNCHANGED <<imap_config, session, query, ids, all_jobs, search_ids, fetched>>

\* line 111
Select ==
    /\ imap_pc = "select"
    /\ \E ok \in BOOLEAN : imap_pc' = IF ok THEN "search" ELSE "raised"
    /\ UNCHANGED <<imap_config, session, query, ids, all_jobs, search_ids, fetched>>

\* lines 115-134
Search ==
    /\ imap_pc = "search"
    /\ query' = build_query(INDEED_FROM, INDEED_SUBJECT)
    /\ \E ans \in SearchAnswers :
         \/ /\ ans.typ = "raise"
            /\ imap_pc' = "raised"
            /\ UNCHANGED <<session, ids, search_ids>>
         \/ /\ ans.typ = "NO"
            /\ session' = "closed"
            /\ imap_pc' = "returned"
            /\ UNCHANGED <<ids, search_ids>>
         \/ /\ ans.typ = "OK"
            /\ search_ids' = SplitWs(ans.data0)
            /\ IF search_ids' = <<>>
               THEN /\ session' = "closed"
                    /\ imap_pc' = "returned"
                    /\ UNCHANGED ids
               ELSE /\ ids' = most_recent(search_ids', INDEED_MAX_EMAILS)
                    /\ imap_pc' = "loop"
                    /\ UNCHANGED session
    /\ UNCHANGED <<imap_config, all_jobs, fetched>>

\* lines 138-155: one turn of the loop
FetchMessage ==
    /\ imap_pc = "loop"
    /\ ids # <<>>
    /\ fetched' = Append(fetched, Head(ids))
    /\ \E ans \in FetchAnswers :
         \/ /\ ans \in {"raise", "OK_no_data"}
            /\ imap_pc' = "raised"
            /\ UNCHANGED <<ids, all_jobs>>
         \/ /\ ans = "NO"
            /\ ids' = Tail(ids)
            /\ UNCHANGED <<imap_pc, all_jobs>>
         \/ /\ ans = "OK"
            /\ ids' = Tail(ids)
            /\ all_jobs' = all_jobs \o message_jobs(MessageOf(Head(ids)))
            /\ UNCHANGED imap_pc
    /\ UNCHANGED <<imap_config, session, query, search_ids>>

\* lines 157-158
Logout ==
    /\ imap_pc = "loop"
    /\ ids = <<>>
    /\ session' = "closed"
    /\ imap_pc' = "returned"
    /\ UNCHANGED <<imap_config, query, ids, all_jobs, search_ids, fetched>>

----------------------------------------------------------------------------
(* Main (remote_jobs.py 199-242) *)

\* unique[k] = j on a dict kept as a sequence of pairs in insertion order
DictSet(d, k, j) ==
    IF \E i \in 1..Len(d) : d[i].k = k
    THEN [i \in 1..Len(d) |-> IF d[i].k = k THEN [k |-> k, j |-> j] ELSE d[i]]
    ELSE Append(d, [k |-> k, j |-> j])

DictKeys(d) == {d[i].k : i \in 1..Len(d)}

\* list(unique.values())
DictValues(d) == [i \in 1..Len(d) |-> d[i].j]

\* the membership test against the ledger dropped
RECURSIVE dedup_ignores_sent(_, _, _)
dedup_ignores_sent(js, snt, d) ==
    IF js = <<>> THEN d
    ELSE dedup_ignores_sent(Tail(js), snt, DictSet(d, job_key(Head(js)), Head(js)))

\* the loop of lines 215-219
RECURSIVE dedup(_, _, _)
dedup(js, snt, d) ==
    IF js = <<>> THEN d
    ELSE LET k == job_key(Head(js)) IN
         dedup(Tail(js), snt, IF k \notin snt THEN DictSet(d, k, Head(js)) ELSE d)

JobKeys(js) == {job_key(js[i]) : i \in 1..Len(js)}

NoCalls == [wwr |-> 0, rok |-> 0, indeed |-> 0]

Locals0 ==
    /\ sent = {}
    /\ jobs_wwr = <<>>
    /\ jobs_rok = <<>>
    /\ indeed_jobs = <<>>
    /\ jobs = <<>>
    /\ unique = <<>>
    /\ last_email = NoEmail
    /\ calls = NoCalls
    /\ raised_by = "none"

DriverInit ==
    /\ ledger_file \in LedgerFilesAtStart
    /\ file_at_start = ledger_file
    /\ pc = "load_sent"
    /\ run = 1
    /\ notified = {}
    /\ seen_ok = {}
    /\ Locals0

\* the driver not running (the other specifications)
DriverIdle ==
    /\ ledger_file = AbsentFile
    /\ file_at_start = AbsentFile
    /\ pc = "idle"
    /\ run = 0
    /\ notified = {}
    /\ seen_ok = {}
    /\ Locals0

\* line 200
LoadSent ==
    /\ pc = "load_sent"
    /\ sent' = load_sent(ledger_file)
    /\ pc' = "fetch_wwr"
    /\ UNCHANGED <<ledger_file, jobs_wwr, jobs_rok, indeed_jobs, jobs, unique, last_email,
                   run, file_at_start, notified, seen_ok, calls, raised_by>>

\* line 202
FetchWwr ==
    /\ pc = "fetch_wwr"
    /\ \E resp \in WWRResponses : jobs_wwr' = fetch_wwr(resp)
    /\ calls' = [calls EXCEPT !.wwr = @ + 1]
    /\ pc' = "fetch_remoteok"
    /\ UNCHANGED <<ledger_file, sent, jobs_rok, indeed_jobs, jobs, unique, last_email,
                   run, file_at_start, notified, seen_ok, raised_by>>

\* line 203: an exception of fetch_remoteok ends main
FetchRemoteok ==
    /\ pc = "fetch_remoteok"
    /\ \E resp \in RemoteOKResponses :
         LET r == fetch_remoteok(resp) IN
         IF r.raised
         THEN /\ pc' = "raised"
              /\ raised_by' = "fetch_remoteok"
              /\ UNCHANGED jobs_rok
         ELSE /\ pc' = "fetch_indeed"
              /\ jobs_rok' = r.jobs
              /\ UNCHANGED raised_by
    /\ calls' = [calls EXCEPT !.rok = @ + 1]
    /\ UNCHANGED <<ledger_file, sent, jobs_wwr, indeed_jobs, jobs, unique, last_email,
                   run, file_at_start, notified, seen_ok>>

\* lines 204-210: an exception of fetch_indeed_jobs_from_gmail is caught
FetchIndeed ==
    /\ pc = "fetch_indeed"
    /\ \E o \in IndeedOutcomes :
         indeed_jobs' = IF o.raised THEN <<>> ELSE o.jobs
    /\ calls' = [calls EXCEPT !.indeed = @ + 1]
    /\ pc' = "merge"
    /\ UNCHANGED <<ledger_file, sent, jobs_wwr, jobs_rok, jobs, unique, last_email,
                   run, file_at_start, notified, seen_ok, raised_by>>

\* line 211: both HTTP adapters are called again, fetch_wwr first
Merge ==
    /\ pc = "merge"
    /\ \E w \in WWRResponses, resp \in RemoteOKResponses :
         LET r == fetch_remoteok(resp) IN
         IF r.raised
         THEN /\ pc' = "raised"
              /\ raised_by' = "fetch_remoteok"
              /\ UNCHANGED jobs
         ELSE /\ pc' = "dedup"
              /\ jobs' = fetch_wwr(w) \o r.jobs \o indeed_jobs
              /\ UNCHANGED raised_by
    /\ calls' = [calls EXCEPT !.wwr = @ + 1, !.rok = @ + 1]
    /\ UNCHANGED <<ledger_file, sent, jobs_wwr, jobs_rok, indeed_jobs, unique, last_email,
                   run, file_at_start, notified, seen_ok>>

\* lines 215-225: with nothing new main prints "No new jobs." and returns
Dedup ==
    /\ pc = "dedup"
    /\ unique' = dedup(jobs, sent, <<>>)
    /\ IF unique' = <<>>
       THEN /\ pc' = "returned"
            /\ seen_ok' = seen_ok \cup JobKeys(jobs)
       ELSE /\ pc' = "send"
            /\ UNCHANGED seen_ok
    /\ UNCHANGED <<ledger_file, sent, jobs_wwr, jobs_rok, indeed_jobs, jobs, last_email,
                   run, file_at_start, notified, calls, raised_by>>

\* every failed send goes on as a successful one
SendEmail_ignores_failure ==
    /\ pc = "send"
    /\ \E ok \in BOOLEAN :
         /\ last_email' = IF ok THEN [subject |-> digest_subject(DictValues(unique)),
                                      body |-> digest_body(DictValues(unique))]
                          ELSE NoEmail
         /\ pc' = "save"
         /\ UNCHANGED raised_by
    /\ UNCHANGED <<ledger_file, sent, jobs_wwr, jobs_rok, indeed_jobs, jobs, unique,
                   run, file_at_start, notified, seen_ok, calls>>

\* lines 227-238: send_email does not catch what smtplib raises
SendEmail ==
    /\ pc = "send"
    /\ \E ok \in BOOLEAN :
         IF ok
         THEN /\ last_email' = [subject |-> digest_subject(DictValues(unique)),
                                body |-> digest_body(DictValues(unique))]
              /\ pc' = "save"
              /\ UNCHANGED raised_by
         ELSE /\ pc' = "raised"
              /\ raised_by' = "send_email"
              /\ UNCHANGED last_email
    /\ UNCHANGED <<ledger_file, sent, jobs_wwr, jobs_rok, indeed_jobs, jobs, unique,
                   run, file_at_start, notified, seen_ok, calls>>

\* only the keys of this run are written
SaveSent_only_new ==
    /\ pc = "save"
    /\ sent' = sent \cup DictKeys(unique)
    /\ ledger_file' = save_sent(DictKeys(unique))
    /\ pc' = "returned"
    /\ notified' = notified \cup DictKeys(unique)
    /\ seen_ok' = seen_ok \cup JobKeys(jobs)
    /\ UNCHANGED <<jobs_wwr, jobs_rok, indeed_jobs, jobs, unique, last_email,
                   run, file_at_start, calls, raised_by>>

\* lines 240-242
SaveSent ==
    /\ pc = "save"
    /\ sent' = sent \cup DictKeys(unique)
    /\ ledger_file' = save_sent(sent')
    /\ pc' = "returned"
    /\ notified' = notified \cup DictKeys(unique)
    /\ seen_ok' = seen_ok \cup JobKeys(jobs)
    /\ UNCHANGED <<jobs_wwr, jobs_rok, indeed_jobs, jobs, unique, last_email,
                   run, file_at_start, calls, raised_by>>

\* line 244-245: the script is started again (a scheduled run) on the same file
StartRun ==
    /\ pc \in {"returned", "raised"}
    /\ run < MaxRuns
    /\ run' = run + 1
    /\ file_at_start' = ledger_file
    /\ pc' = "load_sent"
    /\ sent' = {}
    /\ jobs_wwr' = <<>>
    /\ jobs_rok' = <<>>
    /\ indeed_jobs' = <<>>
    /\ jobs' = <<>>
    /\ unique' = <<>>
    /\ last_email' = NoEmail
    /\ calls' = NoCalls
    /\ raised_by' = "none"
    /\ UNCHANGED <<ledger_file, notified, seen_ok>>

\* no call of fetch_indeed_jobs_from_gmail stepped through (the other specifications)
ImapIdle ==
    /\ USER = <<>>
    /\ PASS = <<>>
    /\ INDEED_FROM = <<>>
    /\ INDEED_SUBJECT = <<>>
    /\ INDEED_MAX_EMAILS = DefaultMaxEmails
    /\ imap_pc = "idle"
    /\ session = "none"
    /\ query = <<>>
    /\ ids = <<>>
    /\ all_jobs = <<>>
    /\ search_ids = <<>>
    /\ fetched = <<>>

\* no call of is_allowed_job of its own (the other specifications)
FilterIdle ==
    /\ f_pc = "idle"
    /\ f_title = <<>>
    /\ f_desc = <<>>
    /\ f_company = <<>>
    /\ f_location = <<>>
    /\ f_result = FALSE

Init ==
    /\ SEARCH_KEYWORDS = KeywordsFromEnv(<<>>)
    /\ DriverInit
    /\ FilterIdle
    /\ ImapIdle

Next ==
    \/ (LoadSent /\ UNCHANGED <<SEARCH_KEYWORDS, filter_vars, imap_vars>>)
    \/ (FetchWwr /\ UNCHANGED <<SEARCH_KEYWORDS, filter_vars, imap_vars>>)
    \/ (FetchRemoteok /\ UNCHANGED <<SEARCH_KEYWORDS, filter_vars, imap_vars>>)
    \/ (FetchIndeed /\ UNCHANGED <<SEARCH_KEYWORDS, filter_vars, imap_vars>>)
    \/ (Merge /\ UNCHANGED <<SEARCH_KEYWORDS, filter_vars, imap_vars>>)
    \/ (Dedup /\ UNCHANGED <<SEARCH_KEYWORDS, filter_vars, imap_vars>>)
    \/ (SendEmail /\ UNCHANGED <<SEARCH_KEYWORDS, filter_vars, imap_vars>>)
    \/ (SaveSent /\ UNCHANGED <<SEARCH_KEYWORDS, filter_vars, imap_vars>>)
    \/ (StartRun /\ UNCHANGED <<SEARCH_KEYWORDS, filter_vars, imap_vars>>)

Spec == Init /\ [][Next]_vars

----------------------------------------------------------------------------
(* One call of fetch_indeed_jobs_from_gmail, stepped through *)

InitImap ==
    /\ SEARCH_KEYWORDS = KeywordsFromEnv(<<>>)
    /\ ImapInit
    /\ DriverIdle
    /\ FilterIdle

NextImap ==
    \/ (CheckCredentials /\ UNCHANGED <<SEARCH_KEYWORDS, filter_vars, driver_vars>>)
    \/ (Connect /\ UNCHANGED <<SEARCH_KEYWORDS, filter_vars, driver_vars>>)
    \/ (Login /\ UNCHANGED <<SEARCH_KEYWORDS, filter_vars, driver_vars>>)
    \/ (Select /\ UNCHANGED <<SEARCH_KEYWORDS, filter_vars, driver_vars>>)
    \/ (Search /\ UNCHANGED <<SEARCH_KEYWORDS, filter_vars, driver_vars>>)
    \/ (FetchMessage /\ UNCHANGED <<SEARCH_KEYWORDS, filter_vars, driver_vars>>)
    \/ (Logout /\ UNCHANGED <<SEARCH_KEYWORDS, filter_vars, driver_vars>>)

SpecImap == InitImap /\ [][NextImap]_vars

----------------------------------------------------------------------------
(* One call of is_allowed_job on drawn arguments *)

FilterChars == {"c", "N", " "}

\* environment values of SEARCH_KEYWORDS: unset, and two configured lists
FilterEnvs ==
    { <<>>,
      <<"N",","," ","c","c"," ",",">>,
      <<"c"," ","N">> }

MetaFields == { <<>>, <<"c">>, <<"N">>, <<"C","n">> }

FilterInit ==
    /\ \E env \in FilterEnvs : SEARCH_KEYWORDS = KeywordsFromEnv(env)
    /\ f_pc = "call"
    /\ f_title \in StringsUpTo(FilterChars, MaxFieldLen)
    /\ f_desc \in StringsUpTo(FilterChars, MaxFieldLen)
    /\ f_company \in MetaFields
    /\ f_location \in MetaFields
    /\ f_result = FALSE
    /\ DriverIdle
    /\ ImapIdle

CallIsAllowedJob ==
    /\ f_pc = "call"
    /\ f_result' = is_allowed_job(f_title, f_company, f_location, f_desc)
    /\ f_pc' = "returned"
    /\ UNCHANGED <<SEARCH_KEYWORDS, f_title, f_company, f_location, f_desc>>
    /\ UNCHANGED <<driver_vars, imap_vars>>

FilterNext == CallIsAllowedJob

SpecFilter == FilterInit /\ [][FilterNext]_vars

----------------------------------------------------------------------------
(* C1: a job whose key was in the digest of a run that sent and completed  *)
(* is in no digest of a later run on the same ledger file; a run that      *)
(* merges only records that an earlier returned run merged finds nothing   *)
(* new and sends no email.                                                 *)

C1_NeverNotifiedTwice ==
    /\ pc \in {"send", "save"} =>
          /\ DictKeys(unique) \cap notified = {}
          /\ DictKeys(unique) \cap seen_ok = {}
          /\ ~(JobKeys(jobs) \subseteq seen_ok)
    /\ (pc = "returned" /\ unique = <<>>) => last_email = NoEmail

\* a later run fetches a job an earlier digest held, next to a new one, and
\* builds its digest without it
C1_Witness ==
    /\ run > 1
    /\ pc = "send"
    /\ JobKeys(jobs) \cap notified # {}
    /\ DictKeys(unique) \cap notified = {}

(* C2: the ledger file is written only after the digest of the same run    *)
(* was sent; a run with no new jobs and a run whose send_email raises      *)
(* leave the file as it was when the run started.                          *)

C2_LedgerWrittenOnlyAfterSend ==
    /\ ledger_file # file_at_start => (pc = "returned" /\ last_email # NoEmail)
    /\ (pc = "returned" /\ unique = <<>>) => ledger_file = file_at_start
    /\ pc = "raised" => ledger_file = file_at_start

\* send_email raised with new jobs at hand: the file is untouched
C2_Witness ==
    /\ pc = "raised"
    /\ raised_by = "send_email"
    /\ unique # <<>>
    /\ file_at_start.state = "json"
    /\ ledger_file = file_at_start

(* C3: a failure inside a source adapter becomes an empty result of that   *)
(* adapter and never leaves the driver as an exception.                    *)

C3_AdapterFailureNeverEndsRun ==
    raised_by \notin {"fetch_wwr", "fetch_remoteok", "fetch_indeed_jobs_from_gmail"}

(* C5: the ledger only grows: no key that the file held when a run started *)
(* is missing later, and after a run that sent and completed the file      *)
(* holds the keys it held before together with the keys of the jobs just   *)
(* notified (an absent or unparseable file holding none).                  *)

TitlesNonEmpty(js) == \A i \in 1..Len(js) : js[i].title # <<>>

C7_EveryRecordHasTitle ==
    /\ TitlesNonEmpty(jobs_wwr)
    /\ TitlesNonEmpty(jobs_rok)
    /\ TitlesNonEmpty(indeed_jobs)
    /\ TitlesNonEmpty(jobs)
    /\ TitlesNonEmpty(DictValues(unique))

(* C8: of several merged records with one identity key that is not in the  *)
(* ledger, the driver retains exactly one, the first in concatenation      *)
(* order.                                                                  *)

FirstWithKey(js, k) ==
    js[CHOOSE i \in 1..Len(js) :
           /\ job_key(js[i]) = k
           /\ \A h \in 1..(i - 1) : job_key(js[h]) # k]

C8_FirstSeenWins ==
    pc \in {"send", "save"} =>
        /\ \A i, h \in 1..Len(unique) : unique[i].k = unique[h].k => i = h
        /\ \A i \in 1..Len(unique) : unique[i].j = FirstWithKey(jobs, unique[i].k)

(* C10: in one run each source adapter is invoked once, and the records    *)
(* merged and sent are the records those invocations returned.             *)

C10_EachAdapterInvokedOnce ==
    /\ calls.wwr <= 1
    /\ calls.rok <= 1
    /\ calls.indeed <= 1
    /\ pc \in {"dedup", "send", "save"} => jobs = jobs_wwr \o jobs_rok \o indeed_jobs

----------------------------------------------------------------------------
(* C4: once the mailbox session is open, every exit of                     *)
(* fetch_indeed_jobs_from_gmail, by return or by exception, leaves it      *)
(* logged out.                                                             *)

C4_SessionClosedOnEveryExit ==
    (imap_pc \in {"returned", "raised"} /\ session # "none") => session = "closed"

(* C9: for every maximum N >= 0 the reader fetches at most N messages, and *)
(* a call that reads to the end fetched the last min(N, length) ids of the *)
(* search result, in their order.                                          *)

Min(a, b) == IF a < b THEN a ELSE b

LastIds(s, k) == SubSeq(s, Len(s) - k + 1, Len(s))

C9_AtMostNMostRecent ==
    /\ Len(fetched) <= INDEED_MAX_EMAILS
    /\ (imap_pc = "returned" /\ search_ids # <<>>) =>
          fetched = LastIds(search_ids, Min(INDEED_MAX_EMAILS, Len(search_ids)))

----------------------------------------------------------------------------
(* C6: is_allowed_job returns true iff no exclude keyword is a substring   *)
(* of the lowercased concatenation of the four fields (joined by single    *)
(* spaces, as the code joins them) and at least one configured include     *)
(* keyword is a substring of the lowercased title plus description; an     *)
(* exclude match makes it false whatever the include keywords match.       *)

ExcludeHit ==
    \E i \in 1..Len(EXCLUDE_CHINA_KEYWORDS) :
        Contains(EXCLUDE_CHINA_KEYWORDS[i],
                 Lower(f_title \o Sp \o f_company \o Sp \o f_location \o Sp \o f_desc))

IncludeHit ==
    \E i \in 1..Len(SEARCH_KEYWORDS) :
        Contains(SEARCH_KEYWORDS[i], Lower(f_title \o Sp \o f_desc))

C6_AllowedIffNotExcludedAndIncluded ==
    f_pc = "returned" =>
        /\ f_result = (~ExcludeHit /\ IncludeHit)
        /\ (ExcludeHit => f_result = FALSE)

\* an exclude match together with an include match: the call returns false
C6_Witness ==
    /\ f_pc = "returned"
    /\ ExcludeHit
    /\ IncludeHit
    /\ f_result = FALSE

====
